---- MODULE Spec2Model ----
(***************************************************************************)
(* Subscription aggregator service (em_tz_anvar): HTTP handlers, the       *)
(* subscription service and the PostgreSQL repository.                     *)
(*                                                                         *)
(* Text is a sequence of one-character strings, so that parsing and        *)
(* pattern matching are computed character by character.  An optional      *)
(* value (a nil pointer, a missing row) is a sequence of length 0 or 1.    *)
(***************************************************************************)
EXTENDS Integers, Sequences, FiniteSets, TLC

VARIABLES store, nextId, clock, upd, resp

vars == <<store, nextId, clock, upd, resp>>

----------------------------------------------------------------------------
(* Bounds of the model                                                      *)

\* number of subscriptions created (the ids uuid.New() hands out)
MaxIds == 1
\* number of Update requests that can be in flight or finished
NumReqs == 2
\* number of time.Now() readings
MaxClock == 3

Ids == 1..MaxIds
Reqs == 1..NumReqs

None == << >>
Some(x) == <<x>>

----------------------------------------------------------------------------
(* Text                                                                     *)

Digit == {"0", "1", "2", "3", "4", "5", "6", "7", "8", "9"}

DigitVal(c) ==
  CASE c = "0" -> 0 [] c = "1" -> 1 [] c = "2" -> 2 [] c = "3" -> 3
    [] c = "4" -> 4 [] c = "5" -> 5 [] c = "6" -> 6 [] c = "7" -> 7
    [] c = "8" -> 8 [] c = "9" -> 9

\* the date strings requests carry
S_11_2024 == <<"1", "1", "-", "2", "0", "2", "4">>
S_12_2024 == <<"1", "2", "-", "2", "0", "2", "4">>
S_01_2025 == <<"0", "1", "-", "2", "0", "2", "5">>
S_02_2025 == <<"0", "2", "-", "2", "0", "2", "5">>
S_13_2025 == <<"1", "3", "-", "2", "0", "2", "5">>
S_2025_01 == <<"2", "0", "2", "5", "-", "0", "1">>
S_invalid == <<"i", "n", "v", "a", "l", "i", "d">>
S_empty == << >>

Lower(c) == CASE c = "A" -> "a" [] c = "B" -> "b" [] OTHER -> c

\* text ILIKE pattern: % is any run of characters, _ any one character,
\* letters compare without case
RECURSIVE ILike(_, _)
ILike(text, pat) ==
  IF pat = << >> THEN text = << >>
  ELSE IF Head(pat) = "%"
  THEN \E k \in 0..Len(text) : ILike(SubSeq(text, k + 1, Len(text)), Tail(pat))
  ELSE /\ text # << >>
       /\ Head(pat) = "_" \/ Lower(Head(pat)) = Lower(Head(text))
       /\ ILike(Tail(text), Tail(pat))

----------------------------------------------------------------------------
(* time.Parse("01-2006", s): a two-digit month 01..12, "-", a four-digit   *)
(* year, nothing after it; the day is 1 and the zone UTC.                   *)

ParseOK(s) ==
  /\ Len(s) = 7
  /\ s[1] \in Digit /\ s[2] \in Digit
  /\ DigitVal(s[1]) * 10 + DigitVal(s[2]) \in 1..12
  /\ s[3] = "-"
  /\ \A i \in 4..7 : s[i] \in Digit

parseMonthYear(s) ==
  IF ParseOK(s)
  THEN [ok |-> TRUE,
        t |-> [year |-> DigitVal(s[4]) * 1000 + DigitVal(s[5]) * 100
                         + DigitVal(s[6]) * 10 + DigitVal(s[7]),
               month |-> DigitVal(s[1]) * 10 + DigitVal(s[2])]]
  ELSE [ok |-> FALSE, t |-> [year |-> 1, month |-> 1]]

\* order of two timestamps (both are first-of-month, midnight UTC)
TimeLE(a, b) ==
  \/ a.year < b.year
  \/ a.year = b.year /\ a.month <= b.month

----------------------------------------------------------------------------
(* models.Subscription and the errors of the three layers                   *)

N_a == <<"a">>
N_b == <<"b">>
N_Ab == <<"A", "b">>
\* a service name that is one LIKE metacharacter
N_wild == <<"_">>

Subscription(id, name, price, user, start, end, created, updated) ==
  [id |-> id, service_name |-> name, price |-> price, user_id |-> user,
   start_date |-> start, end_date |-> end,
   created_at |-> created, updated_at |-> updated]

NoErr == ""
ErrNotFound == "subscription not found"
ErrCreate == "failed to create subscription: db"
ErrGet == "failed to get subscription: db"
ErrUpdate == "failed to update subscription: db"
ErrDelete == "failed to delete subscription: db"
ErrTotalCost == "failed to calculate total cost: db"
ErrGetAll == "failed to get subscriptions: db"
ErrUserID == "invalid user_id format: uuid"
ErrStartDate == "invalid start_date format: parsing time"
ErrEndDate == "invalid end_date format: parsing time"

\* errors.Is(err, repository.ErrNotFound): no layer wraps ErrNotFound
IsNotFound(err) == err = ErrNotFound

StatusOK == 200
StatusCreated == 201
StatusNoContent == 204
StatusBadRequest == 400
StatusNotFound == 404
StatusInternalServerError == 500

\* uuid.Parse on the strings requests carry
UUIDs == {"u1", "u2"}
uuidParse(s) == [ok |-> s \in UUIDs, id |-> s]

----------------------------------------------------------------------------
(* The repository: one SQL statement each.  dbOK = FALSE is a driver or    *)
(* connection failure of that statement.                                    *)

\* INSERT INTO subscriptions ...
RepoCreate(st, sub, dbOK) ==
  IF ~dbOK \/ sub.id \in DOMAIN st
  THEN [store |-> st, err |-> ErrCreate]
  ELSE [store |-> [i \in DOMAIN st \cup {sub.id} |->
                     IF i = sub.id THEN sub ELSE st[i]],
        err |-> NoErr]

\* SELECT ... FROM subscriptions WHERE id = $1
RepoGetByID(st, id, dbOK) ==
  IF ~dbOK THEN [sub |-> None, err |-> ErrGet]
  ELSE IF id \notin DOMAIN st THEN [sub |-> None, err |-> ErrNotFound]
  ELSE [sub |-> Some(st[id]), err |-> NoErr]

\* RepoUpdate without the rowsAffected == 0 check
RepoUpdateNoRowsCheck(st, sub, dbOK) ==
  IF ~dbOK THEN [store |-> st, err |-> ErrUpdate]
  ELSE IF sub.id \notin DOMAIN st THEN [store |-> st, err |-> NoErr]
  ELSE [store |-> [st EXCEPT ![sub.id] =
                     [@ EXCEPT !.service_name = sub.service_name,
                               !.price = sub.price,
                               !.start_date = sub.start_date,
                               !.end_date = sub.end_date,
                               !.updated_at = sub.updated_at]],
        err |-> NoErr]

\* RepoUpdate that also sets created_at to the new timestamp
RepoUpdateTouchesCreated(st, sub, dbOK) ==
  IF ~dbOK THEN [store |-> st, err |-> ErrUpdate]
  ELSE IF sub.id \notin DOMAIN st THEN [store |-> st, err |-> ErrNotFound]
  ELSE [store |-> [st EXCEPT ![sub.id] =
                     [@ EXCEPT !.service_name = sub.service_name,
                               !.price = sub.price,
                               !.start_date = sub.start_date,
                               !.end_date = sub.end_date,
                               !.created_at = sub.updated_at,
                               !.updated_at = sub.updated_at]],
        err |-> NoErr]

\* RepoUpdate whose statement has no WHERE id = $6
RepoUpdateNoWhere(st, sub, dbOK) ==
  IF ~dbOK THEN [store |-> st, err |-> ErrUpdate]
  ELSE IF DOMAIN st = {} THEN [store |-> st, err |-> ErrNotFound]
  ELSE [store |-> [i \in DOMAIN st |->
                     [st[i] EXCEPT !.service_name = sub.service_name,
                                   !.price = sub.price,
                                   !.start_date = sub.start_date,
                                   !.end_date = sub.end_date,
                                   !.updated_at = sub.updated_at]],
        err |-> NoErr]

\* RepoUpdate that inserts the row when the id has none
RepoUpdateUpsert(st, sub, dbOK) ==
  IF ~dbOK THEN [store |-> st, err |-> ErrUpdate]
  ELSE [store |-> [i \in DOMAIN st \cup {sub.id} |->
                     IF i = sub.id THEN sub ELSE st[i]],
        err |-> NoErr]

\* RepoUpdate whose SET list leaves out price
RepoUpdateNoPrice(st, sub, dbOK) ==
  IF ~dbOK THEN [store |-> st, err |-> ErrUpdate]
  ELSE IF sub.id \notin DOMAIN st THEN [store |-> st, err |-> ErrNotFound]
  ELSE [store |-> [st EXCEPT ![sub.id] =
                     [@ EXCEPT !.service_name = sub.service_name,
                               !.start_date = sub.start_date,
                               !.end_date = sub.end_date,
                               !.updated_at = sub.updated_at]],
        err |-> NoErr]

\* UPDATE subscriptions SET service_name, price, start_date, end_date,
\* updated_at WHERE id = $6; no row affected is ErrNotFound
RepoUpdate(st, sub, dbOK) ==
  IF ~dbOK THEN [store |-> st, err |-> ErrUpdate]
  ELSE IF sub.id \notin DOMAIN st THEN [store |-> st, err |-> ErrNotFound]
  ELSE [store |-> [st EXCEPT ![sub.id] =
                     [@ EXCEPT !.service_name = sub.service_name,
                               !.price = sub.price,
                               !.start_date = sub.start_date,
                               !.end_date = sub.end_date,
                               !.updated_at = sub.updated_at]],
        err |-> NoErr]

\* RepoDelete that marks the row instead of removing it
RepoDeleteKeepsRow(st, id, dbOK) ==
  IF ~dbOK THEN [store |-> st, err |-> ErrDelete]
  ELSE IF id \notin DOMAIN st THEN [store |-> st, err |-> ErrNotFound]
  ELSE [store |-> st, err |-> NoErr]

\* RepoDelete without the rowsAffected == 0 check
RepoDeleteNoRowsCheck(st, id, dbOK) ==
  IF ~dbOK THEN [store |-> st, err |-> ErrDelete]
  ELSE [store |-> [i \in DOMAIN st \ {id} |-> st[i]], err |-> NoErr]

\* DELETE FROM subscriptions WHERE id = $1; no row affected is ErrNotFound
RepoDelete(st, id, dbOK) ==
  IF ~dbOK THEN [store |-> st, err |-> ErrDelete]
  ELSE IF id \notin DOMAIN st THEN [store |-> st, err |-> ErrNotFound]
  ELSE [store |-> [i \in DOMAIN st \ {id} |-> st[i]], err |-> NoErr]

----------------------------------------------------------------------------
(* The request bodies                                                       *)

UpdateSubscriptionReq(name, price, start, end) ==
  [json |-> TRUE, service_name |-> name, price |-> price,
   start_date |-> start, end_date |-> end]

\* PUT bodies: price only (two prices), service_name only, end_date only,
\* the empty patch, a patch whose start_date does not parse next to a valid
\* service_name and price, and a price the binding rejects
UpdateBodies ==
  { UpdateSubscriptionReq(S_empty, 2, S_empty, S_empty),
    UpdateSubscriptionReq(S_empty, 3, S_empty, S_empty),
    UpdateSubscriptionReq(N_b, 0, S_empty, S_empty),
    UpdateSubscriptionReq(S_empty, 0, S_empty, S_12_2024),
    UpdateSubscriptionReq(S_empty, 0, S_empty, S_empty),
    UpdateSubscriptionReq(N_b, 2, S_invalid, S_empty),
    UpdateSubscriptionReq(S_empty, -1, S_empty, S_empty) }

\* the :id path parameter: a UUID that names id i, or text that is no UUID
\* (written 0)
IdParams == Ids \cup {0}
idParse(p) == [ok |-> p >= 1, id |-> p]

\* c.ShouldBindJSON(&req) for UpdateSubscriptionReq: price is
\* `omitempty,min=1`, the other fields are unconstrained
BindUpdate(body) == body.json /\ (body.price = 0 \/ body.price >= 1)

----------------------------------------------------------------------------
(* subscriptionService.Update, the mutation of the fetched row: a field    *)
(* of the request that is empty or zero is skipped; a date that does not   *)
(* parse ends the request with an error.                                    *)

\* ApplyPatch that skips a date it cannot parse instead of failing
ApplyPatchSkipBadDate(sub, req) ==
  LET s1 == IF req.service_name # S_empty
            THEN [sub EXCEPT !.service_name = req.service_name] ELSE sub
      s2 == IF req.price > 0 THEN [s1 EXCEPT !.price = req.price] ELSE s1
      sd == parseMonthYear(req.start_date)
      s3 == IF req.start_date # S_empty /\ sd.ok
            THEN [s2 EXCEPT !.start_date = sd.t] ELSE s2
      ed == parseMonthYear(req.end_date)
      s4 == IF req.end_date # S_empty /\ ed.ok
            THEN [s3 EXCEPT !.end_date = Some(ed.t)] ELSE s3
  IN  [sub |-> Some(s4), err |-> NoErr]

ApplyPatch(sub, req) ==
  LET s1 == IF req.service_name # S_empty
            THEN [sub EXCEPT !.service_name = req.service_name] ELSE sub
      s2 == IF req.price > 0 THEN [s1 EXCEPT !.price = req.price] ELSE s1
      sd == parseMonthYear(req.start_date)
      s3 == IF req.start_date # S_empty THEN [s2 EXCEPT !.start_date = sd.t]
            ELSE s2
      ed == parseMonthYear(req.end_date)
      s4 == IF req.end_date # S_empty THEN [s3 EXCEPT !.end_date = Some(ed.t)]
            ELSE s3
  IN  IF req.start_date # S_empty /\ ~sd.ok
      THEN [sub |-> None, err |-> ErrStartDate]
      ELSE IF req.end_date # S_empty /\ ~ed.ok
      THEN [sub |-> None, err |-> ErrEndDate]
      ELSE [sub |-> Some(s4), err |-> NoErr]

\* UpdateErrStatus that answers every failed service call with 500
UpdateErrStatusAll500(err) == StatusInternalServerError

\* Handler.UpdateSubscription, the status of a failed service call
UpdateErrStatus(err) ==
  IF IsNotFound(err) THEN StatusNotFound ELSE StatusInternalServerError

\* an Update request: where it is, what it carries and what it answered
IdleReq ==
  [pc |-> "idle", idParam |-> 0, body |-> UpdateSubscriptionReq(S_empty, 0, S_empty, S_empty),
   orig |-> None, sub |-> None, err |-> NoErr, status |-> 0, out |-> None]

Finish(u, err, status, out) ==
  [u EXCEPT !.pc = "done", !.err = err, !.status = status, !.out = out]

----------------------------------------------------------------------------
(* PUT /subscriptions/:id runs in three steps: the handler's parsing and   *)
(* the service's GetByID; the mutation and time.Now(); the repository's    *)
(* UPDATE and the response.  Other requests run between the steps.          *)
(* Requests are numbered in the order they arrive.                          *)

\* the first step, for a path parameter of P
UpdateBeginOn(r, P) ==
  /\ upd[r].pc = "idle"
  /\ \A q \in Reqs : q < r => upd[q].pc # "idle"
  /\ \E p \in P, body \in UpdateBodies, dbOK \in BOOLEAN :
       LET u == [upd[r] EXCEPT !.idParam = p, !.body = body]
           got == RepoGetByID(store, idParse(p).id, dbOK)
       IN  upd' = [upd EXCEPT ![r] =
             IF ~idParse(p).ok
             THEN Finish(u, "invalid subscription ID", StatusBadRequest, None)
             ELSE IF ~BindUpdate(body)
             THEN Finish(u, "invalid request body: binding", StatusBadRequest, None)
             ELSE IF got.err # NoErr
             THEN Finish(u, got.err, UpdateErrStatus(got.err), None)
             ELSE [u EXCEPT !.pc = "read", !.orig = got.sub, !.sub = got.sub]]
  /\ UNCHANGED <<store, nextId, clock, resp>>

UpdateBegin(r) == UpdateBeginOn(r, IdParams)

UpdateMutate(r) ==
  /\ upd[r].pc = "read"
  /\ LET m == ApplyPatch(upd[r].sub[1], upd[r].body)
     IN  IF m.err # NoErr
         THEN /\ upd' = [upd EXCEPT ![r] =
                   Finish(@, m.err, UpdateErrStatus(m.err), None)]
              /\ UNCHANGED clock
         ELSE /\ clock <= MaxClock
              /\ upd' = [upd EXCEPT ![r] =
                   [@ EXCEPT !.pc = "stamped",
                             !.sub = Some([m.sub[1] EXCEPT !.updated_at = clock])]]
              /\ clock' = clock + 1
  /\ UNCHANGED <<store, nextId, resp>>

UpdateWrite(r) ==
  /\ upd[r].pc = "stamped"
  /\ \E dbOK \in BOOLEAN :
       LET w == RepoUpdate(store, upd[r].sub[1], dbOK)
       IN  /\ store' = w.store
           /\ upd' = [upd EXCEPT ![r] =
                IF w.err # NoErr
                THEN Finish(@, w.err, UpdateErrStatus(w.err), None)
                ELSE Finish(@, NoErr, StatusOK, upd[r].sub)]
  /\ UNCHANGED <<nextId, clock, resp>>

----------------------------------------------------------------------------
(* POST /subscriptions and DELETE /subscriptions/:id: one statement each   *)

CreateSubscriptionReq(name, price, user, start, end) ==
  [service_name |-> name, price |-> price, user_id |-> user,
   start_date |-> start, end_date |-> end]

\* POST bodies: open-ended, bounded, end before start, and one body per
\* rejected field
CreateBodies ==
  { CreateSubscriptionReq(N_a, 1, "u1", S_12_2024, S_empty),
    CreateSubscriptionReq(N_Ab, 2, "u2", S_01_2025, S_02_2025),
    CreateSubscriptionReq(N_a, 1, "u1", S_02_2025, S_11_2024),
    CreateSubscriptionReq(N_a, 0, "u1", S_12_2024, S_empty),
    CreateSubscriptionReq(N_a, 1, "not-a-uuid", S_12_2024, S_empty),
    CreateSubscriptionReq(N_a, 1, "u1", S_2025_01, S_empty),
    CreateSubscriptionReq(N_a, 1, "u1", S_12_2024, S_13_2025) }

\* BindCreate without min=1 on price
BindCreateNoMin(body) ==
  /\ body.service_name # S_empty
  /\ uuidParse(body.user_id).ok
  /\ body.start_date # S_empty

\* c.ShouldBindJSON(&req) for CreateSubscriptionReq
BindCreate(body) ==
  /\ body.service_name # S_empty
  /\ body.price >= 1
  /\ uuidParse(body.user_id).ok
  /\ body.start_date # S_empty

\* the validator's message for one field that failed one tag
FieldError(field, tag) ==
  "Key: 'CreateSubscriptionReq." \o field \o "' Error:Field validation for '"
    \o field \o "' failed on the '" \o tag \o "' tag"

\* the messages of the fields of CreateSubscriptionReq that fail their
\* binding tags, in the order of the struct ("required" fails on the zero
\* value, before any other tag of the field)
BindCreateFailures(body) ==
  (IF body.service_name = S_empty
   THEN <<FieldError("ServiceName", "required")>> ELSE << >>)
  \o (IF body.price = 0 THEN <<FieldError("Price", "required")>>
      ELSE IF body.price < 1 THEN <<FieldError("Price", "min")>> ELSE << >>)
  \o (IF body.user_id = "" THEN <<FieldError("UserID", "required")>>
      ELSE IF ~uuidParse(body.user_id).ok
      THEN <<FieldError("UserID", "uuid")>> ELSE << >>)
  \o (IF body.start_date = S_empty
      THEN <<FieldError("StartDate", "required")>> ELSE << >>)

\* ValidationErrors.Error(): one message per line
RECURSIVE JoinLines(_)
JoinLines(msgs) ==
  IF Len(msgs) = 0 THEN ""
  ELSE IF Len(msgs) = 1 THEN msgs[1]
  ELSE msgs[1] \o "\n" \o JoinLines(Tail(msgs))

\* the body of the 400 answer to a POST whose binding failed
BindCreateError(body) ==
  "invalid request body: " \o JoinLines(BindCreateFailures(body))

\* what a one-step request answered
Response(op, status, err, sub, total) ==
  [op |-> op, req |-> [none |-> TRUE], status |-> status, error |-> err,
   sub |-> sub, list |-> << >>, total |-> total]

\* NewSubscription that reads the clock a second time for updated_at
NewSubscriptionTwoClocks(req, id, now) ==
  LET user == uuidParse(req.user_id)
      sd == parseMonthYear(req.start_date)
      ed == parseMonthYear(req.end_date)
  IN  IF ~user.ok THEN [sub |-> None, err |-> ErrUserID]
      ELSE IF ~sd.ok THEN [sub |-> None, err |-> ErrStartDate]
      ELSE IF req.end_date # S_empty /\ ~ed.ok
      THEN [sub |-> None, err |-> ErrEndDate]
      ELSE [sub |-> Some(Subscription(id, req.service_name, req.price, user.id,
                           sd.t,
                           IF req.end_date # S_empty THEN Some(ed.t) ELSE None,
                           now, now + 1)),
            err |-> NoErr]

\* NewSubscription that takes an end_date it cannot parse for no end_date
NewSubscriptionSkipBadEnd(req, id, now) ==
  LET user == uuidParse(req.user_id)
      sd == parseMonthYear(req.start_date)
      ed == parseMonthYear(req.end_date)
  IN  IF ~user.ok THEN [sub |-> None, err |-> ErrUserID]
      ELSE IF ~sd.ok THEN [sub |-> None, err |-> ErrStartDate]
      ELSE [sub |-> Some(Subscription(id, req.service_name, req.price, user.id,
                           sd.t,
                           IF req.end_date # S_empty /\ ed.ok
                           THEN Some(ed.t) ELSE None,
                           now, now)),
            err |-> NoErr]

\* subscriptionService.Create up to the INSERT: the row or the error
NewSubscription(req, id, now) ==
  LET user == uuidParse(req.user_id)
      sd == parseMonthYear(req.start_date)
      ed == parseMonthYear(req.end_date)
  IN  IF ~user.ok THEN [sub |-> None, err |-> ErrUserID]
      ELSE IF ~sd.ok THEN [sub |-> None, err |-> ErrStartDate]
      ELSE IF req.end_date # S_empty /\ ~ed.ok
      THEN [sub |-> None, err |-> ErrEndDate]
      ELSE [sub |-> Some(Subscription(id, req.service_name, req.price, user.id,
                           sd.t,
                           IF req.end_date # S_empty THEN Some(ed.t) ELSE None,
                           now, now)),
            err |-> NoErr]

\* POST /subscriptions with this body while at most last - 1 ids have been
\* handed out
CreateSubscriptionWith(body, last) ==
  \E dbOK \in BOOLEAN :
    LET n == NewSubscription(body, nextId, clock)
    IN  IF ~BindCreate(body)
        THEN /\ resp' = Response("create", StatusBadRequest,
                                 BindCreateError(body), None, 0)
             /\ UNCHANGED <<store, nextId, clock, upd>>
        ELSE IF n.err # NoErr
        THEN /\ resp' = Response("create", StatusInternalServerError, n.err, None, 0)
             /\ UNCHANGED <<store, nextId, clock, upd>>
        ELSE /\ nextId <= last
             /\ clock <= MaxClock
             /\ LET c == RepoCreate(store, n.sub[1], dbOK)
                IN  /\ store' = c.store
                    /\ resp' = IF c.err # NoErr
                               THEN Response("create", StatusInternalServerError,
                                             c.err, None, 0)
                               ELSE Response("create", StatusCreated, NoErr, n.sub, 0)
             /\ nextId' = nextId + 1
             /\ clock' = clock + 1
             /\ UNCHANGED upd

\* POST /subscriptions while at most last - 1 ids have been handed out
CreateSubscriptionUpTo(last) ==
  \E body \in CreateBodies : CreateSubscriptionWith(body, last)

CreateSubscription == CreateSubscriptionUpTo(MaxIds)

\* DELETE /subscriptions/:id for a path parameter of P
DeleteSubscriptionOn(P) ==
  \E p \in P, dbOK \in BOOLEAN :
    LET Answer(status, err) ==
          [Response("delete", status, err, None, 0) EXCEPT !.req = [id |-> p]]
    IN  /\ IF ~idParse(p).ok
           THEN /\ resp' = Answer(StatusBadRequest, "invalid subscription ID")
                /\ UNCHANGED store
           ELSE LET d == RepoDelete(store, idParse(p).id, dbOK)
                IN  /\ store' = d.store
                    /\ resp' = IF IsNotFound(d.err)
                               THEN Answer(StatusNotFound, "subscription not found")
                               ELSE IF d.err # NoErr
                               THEN Answer(StatusInternalServerError, d.err)
                               ELSE Answer(StatusNoContent, NoErr)
        /\ UNCHANGED <<nextId, clock, upd>>

DeleteSubscription == DeleteSubscriptionOn(IdParams)

----------------------------------------------------------------------------
(* GET /subscriptions/:id and GET /subscriptions                            *)

GetSubscription ==
  \E p \in IdParams, dbOK \in BOOLEAN :
    LET Answer(status, err, sub) ==
          [Response("get", status, err, sub, 0) EXCEPT !.req = [id |-> p]]
        g == RepoGetByID(store, idParse(p).id, dbOK)
    IN  /\ resp' = IF ~idParse(p).ok
                   THEN Answer(StatusBadRequest, "invalid subscription ID", None)
                   ELSE IF IsNotFound(g.err)
                   THEN Answer(StatusNotFound, "subscription not found", None)
                   ELSE IF g.err # NoErr
                   THEN Answer(StatusInternalServerError, g.err, None)
                   ELSE Answer(StatusOK, NoErr, g.sub)
        /\ UNCHANGED <<store, nextId, clock, upd>>

\* models.SubscriptionFilter
SubscriptionFilter(user, name, limit, offset) ==
  [UserID |-> user, ServiceName |-> name, Limit |-> limit, Offset |-> offset]

\* the rows of S, latest created_at first (rows created at the same instant
\* come in either order)
RECURSIVE Ordered(_, _)
Ordered(st, S) ==
  IF S = {} THEN {<< >>}
  ELSE UNION { { <<st[i]>> \o rest : rest \in Ordered(st, S \ {i}) } :
               i \in {x \in S : \A y \in S : st[y].created_at <= st[x].created_at} }

\* RepoGetAll that applies LIMIT before OFFSET
RepoGetAllLimitFirst(st, f, dbOK) ==
  IF ~dbOK THEN {[list |-> << >>, err |-> ErrGetAll]}
  ELSE { [list |-> SubSeq(l, (IF f.Offset > 0 THEN f.Offset ELSE 0) + 1,
                          IF f.Limit > 0 /\ f.Limit < Len(l) THEN f.Limit ELSE Len(l)),
          err |-> NoErr] :
         l \in Ordered(st, {i \in DOMAIN st :
                  /\ f.UserID # None => st[i].user_id = f.UserID[1]
                  /\ f.ServiceName # S_empty
                       => ILike(st[i].service_name,
                                <<"%">> \o f.ServiceName \o <<"%">>)}) }

\* SELECT ... [WHERE user_id = $n AND service_name ILIKE $n]
\* ORDER BY created_at DESC [LIMIT $n] [OFFSET $n]: the lists it can return
RepoGetAll(st, f, dbOK) ==
  IF ~dbOK THEN {[list |-> << >>, err |-> ErrGetAll]}
  ELSE { [list |-> SubSeq(l, (IF f.Offset > 0 THEN f.Offset ELSE 0) + 1,
                          IF f.Limit > 0 /\ (IF f.Offset > 0 THEN f.Offset ELSE 0) + f.Limit < Len(l)
                          THEN (IF f.Offset > 0 THEN f.Offset ELSE 0) + f.Limit
                          ELSE Len(l)),
          err |-> NoErr] :
         l \in Ordered(st, {i \in DOMAIN st :
                  /\ f.UserID # None => st[i].user_id = f.UserID[1]
                  /\ f.ServiceName # S_empty
                       => ILike(st[i].service_name,
                                <<"%">> \o f.ServiceName \o <<"%">>)}) }

\* the query string of a list request; every value is text, empty when
\* the parameter is absent
ListQuery(user, name, limit, offset) ==
  [user_id |-> user, service_name |-> name, limit |-> limit, offset |-> offset]

\* no filter; another user's rows; a user_id that is no UUID
ListQueries ==
  { ListQuery("", S_empty, S_empty, S_empty),
    ListQuery("u2", S_empty, S_empty, S_empty),
    ListQuery("not-a-uuid", S_empty, S_empty, S_empty) }

\* the value of a run of decimal digits
RECURSIVE DecVal(_)
DecVal(d) ==
  IF d = << >> THEN 0
  ELSE DecVal(SubSeq(d, 1, Len(d) - 1)) * 10 + DigitVal(d[Len(d)])

\* parseQueryInt, that is strconv.Atoi: an optional sign, then digits only
parseQueryInt(s) ==
  LET signed == s # << >> /\ Head(s) \in {"+", "-"}
      digits == IF signed THEN Tail(s) ELSE s
  IN  IF digits # << >> /\ \A i \in 1..Len(digits) : digits[i] \in Digit
      THEN [ok |-> TRUE,
            val |-> IF signed /\ Head(s) = "-" THEN 0 - DecVal(digits)
                    ELSE DecVal(digits)]
      ELSE [ok |-> FALSE, val |-> 0]

\* the page size when the query gives none
DefaultLimit == 20

\* the models.SubscriptionFilter Handler.GetAllSubscriptions builds from
\* the query: a limit or offset that does not parse, a limit <= 0 and an
\* offset < 0 leave the default
ListFilterOf(q) ==
  SubscriptionFilter(
    IF q.user_id # "" THEN Some(uuidParse(q.user_id).id) ELSE None,
    q.service_name,
    IF q.limit # S_empty /\ parseQueryInt(q.limit).ok /\ parseQueryInt(q.limit).val > 0
    THEN parseQueryInt(q.limit).val ELSE DefaultLimit,
    IF q.offset # S_empty /\ parseQueryInt(q.offset).ok /\ parseQueryInt(q.offset).val >= 0
    THEN parseQueryInt(q.offset).val ELSE 0)

\* Handler.GetAllSubscriptions on one of the queries Q
GetAllSubscriptionsFor(Q) ==
  \E q \in Q, dbOK \in BOOLEAN :
    LET Answer(status, err, list) ==
          [Response("list", status, err, None, 0) EXCEPT !.req = q, !.list = list]
        f == ListFilterOf(q)
    IN  /\ IF q.user_id # "" /\ ~uuidParse(q.user_id).ok
           THEN resp' = Answer(StatusBadRequest, "invalid user_id format", << >>)
           ELSE \E g \in RepoGetAll(store, f, dbOK) :
                  resp' = IF g.err # NoErr
                          THEN Answer(StatusInternalServerError, g.err, << >>)
                          ELSE Answer(StatusOK, NoErr, g.list)
        /\ UNCHANGED <<store, nextId, clock, upd>>

GetAllSubscriptions == GetAllSubscriptionsFor(ListQueries)

----------------------------------------------------------------------------
(* GET /subscriptions/cost: the query of subscriptionRepository.GetTotalCost *)

\* models.CostFilter
CostFilter(user, name, start, end) ==
  [UserID |-> user, ServiceName |-> name, StartDate |-> start, EndDate |-> end]

\* LEAST and GREATEST of two timestamps
\* Least that keeps its first argument
LeastFirst(a, b) == a
Least(a, b) == IF TimeLE(a, b) THEN a ELSE b
\* Greatest that keeps its first argument
GreatestFirst(a, b) == a
Greatest(a, b) == IF TimeLE(a, b) THEN b ELSE a

\* the months factor of the SUM: EXTRACT(YEAR ...) * 12 + EXTRACT(MONTH ...)
\* of LEAST(COALESCE(end_date, $1), $1), minus the same of
\* GREATEST(start_date, $2), plus 1
\* BilledMonths without the final + 1
BilledMonthsNoPlusOne(row, f) ==
  LET e == Least(IF row.end_date = None THEN f.EndDate ELSE row.end_date[1],
                 f.EndDate)
      g == Greatest(row.start_date, f.StartDate)
  IN  e.year * 12 + e.month - g.year * 12 - g.month

BilledMonths(row, f) ==
  LET e == Least(IF row.end_date = None THEN f.EndDate ELSE row.end_date[1],
                 f.EndDate)
      g == Greatest(row.start_date, f.StartDate)
  IN  e.year * 12 + e.month - g.year * 12 - g.month + 1

\* CostWindow without the condition on end_date
CostWindowNoEnd(row, f) == TimeLE(row.start_date, f.EndDate)

\* WHERE start_date <= $1 AND (end_date IS NULL OR end_date >= $2)
CostWindow(row, f) ==
  /\ TimeLE(row.start_date, f.EndDate)
  /\ row.end_date = None \/ TimeLE(f.StartDate, row.end_date[1])

\* the conditions added for filter.UserID and filter.ServiceName:
\* AND user_id = $3, AND service_name ILIKE '%' + name + '%'
CostMatches(row, f) ==
  /\ f.UserID # None => row.user_id = f.UserID[1]
  /\ f.ServiceName # S_empty
       => ILike(row.service_name, <<"%">> \o f.ServiceName \o <<"%">>)

CostWhere(row, f) == CostWindow(row, f) /\ CostMatches(row, f)

RECURSIVE SumCost(_, _, _)
SumCost(st, f, S) ==
  IF S = {} THEN 0
  ELSE LET i == CHOOSE x \in S : TRUE
       IN  st[i].price * BilledMonths(st[i], f) + SumCost(st, f, S \ {i})

\* COALESCE(SUM(price * months), 0)::integer over the rows of the WHERE
RepoGetTotalCost(st, f, dbOK) ==
  IF ~dbOK THEN [total |-> 0, err |-> ErrTotalCost]
  ELSE [total |-> SumCost(st, f, {i \in DOMAIN st : CostWhere(st[i], f)}),
        err |-> NoErr]

\* the query string of a cost request
CostQuery(start, end, user, name) ==
  [start_date |-> start, end_date |-> end, user_id |-> user, service_name |-> name]

WindowMonths == {S_11_2024, S_12_2024, S_01_2025, S_02_2025}

\* every window over four months (start after end included), with and
\* without a user and a service name (a letter, or the text "_"); and one
\* query per rejected parameter
CostQueries ==
  { CostQuery(a, b, u, n) :
      a \in WindowMonths, b \in WindowMonths, u \in {"", "u1"},
      n \in {S_empty, N_a, N_b, N_wild} }
  \cup { CostQuery(S_empty, S_01_2025, "", S_empty),
         CostQuery(S_12_2024, S_empty, "", S_empty),
         CostQuery(S_2025_01, S_01_2025, "", S_empty),
         CostQuery(S_12_2024, S_13_2025, "", S_empty),
         CostQuery(S_12_2024, S_01_2025, "not-a-uuid", S_empty) }

\* the models.CostFilter Handler.GetTotalCost builds from the query
CostFilterOf(q) ==
  CostFilter(IF q.user_id # "" THEN Some(uuidParse(q.user_id).id) ELSE None,
             q.service_name,
             parseMonthYear(q.start_date).t, parseMonthYear(q.end_date).t)

\* Handler.GetTotalCost on one of the queries Q
GetTotalCostFor(Q) ==
  \E q \in Q, dbOK \in BOOLEAN :
    LET sd == parseMonthYear(q.start_date)
        ed == parseMonthYear(q.end_date)
        user == uuidParse(q.user_id)
        got == RepoGetTotalCost(store, CostFilterOf(q), dbOK)
        Answer(status, err, total) ==
          [Response("cost", status, err, None, total) EXCEPT !.req = q]
    IN  /\ resp' =
             IF q.start_date = S_empty \/ q.end_date = S_empty
             THEN Answer(StatusBadRequest, "start_date and end_date are required", 0)
             ELSE IF ~sd.ok
             THEN Answer(StatusBadRequest,
                         "invalid start_date format, expected MM-YYYY", 0)
             ELSE IF ~ed.ok
             THEN Answer(StatusBadRequest,
                         "invalid end_date format, expected MM-YYYY", 0)
             ELSE IF q.user_id # "" /\ ~user.ok
             THEN Answer(StatusBadRequest, "invalid user_id format", 0)
             ELSE IF got.err # NoErr
             THEN Answer(StatusInternalServerError, got.err, 0)
             ELSE Answer(StatusOK, NoErr, got.total)
        /\ UNCHANGED <<store, nextId, clock, upd>>

GetTotalCost == GetTotalCostFor(CostQueries)

\* the cost queries asked next to the other requests: every month of every
\* subscription, no filter
LedgerQueries == {CostQuery(S_11_2024, S_02_2025, "", S_empty)}

----------------------------------------------------------------------------
(* The service after start-up: an empty table, no request yet               *)

EmptyStore == [i \in {} |-> 0]

Init ==
  /\ store = EmptyStore
  /\ nextId = 1
  /\ clock = 1
  /\ upd = [r \in Reqs |-> IdleReq]
  /\ resp = Response("none", 0, NoErr, None, 0)

Next ==
  \/ CreateSubscription
  \/ DeleteSubscription
  \/ \E r \in Reqs : UpdateBegin(r)
  \/ \E r \in Reqs : UpdateMutate(r)
  \/ \E r \in Reqs : UpdateWrite(r)
  \/ GetSubscription
  \/ GetAllSubscriptions
  \/ GetTotalCostFor(LedgerQueries)

Spec == Init /\ [][Next]_vars

----------------------------------------------------------------------------
(* Properties of PUT /subscriptions/:id                                     *)

\* the subscription id an Update request addresses
ReqId(u) == idParse(u.idParam).id

Succeeded(u) == u.pc = "done" /\ u.status = StatusOK

\* request r takes the step that ends it
Finishes(r) == upd[r].pc # "done" /\ upd'[r].pc = "done"

\* request r takes its UPDATE step and the UPDATE succeeds
Writes(r) == upd[r].pc = "stamped" /\ Succeeded(upd'[r])

\* C1: two Update requests on the same id that both succeed never started
\* from the same row: the one that writes second read the row the first wrote.
C1_DistinctStartingPoints ==
  \A r1, r2 \in Reqs :
    (r1 # r2 /\ Succeeded(upd[r1]) /\ Succeeded(upd[r2])
       /\ ReqId(upd[r1]) = ReqId(upd[r2]))
    => upd[r1].orig # upd[r2].orig

OnlyPrice(b) ==
  b.price > 0 /\ b.service_name = S_empty
    /\ b.start_date = S_empty /\ b.end_date = S_empty

OnlyServiceName(b) ==
  b.service_name # S_empty /\ b.price = 0
    /\ b.start_date = S_empty /\ b.end_date = S_empty

\* C2: no lost update: when a price-only Update and a service_name-only
\* Update on the same id have both succeeded, and no other Update has written
\* that id, the stored row carries the price of the one and the service_name
\* of the other.
C2_NoLostUpdate ==
  \A r1, r2 \in Reqs :
    (/\ r1 # r2
     /\ Succeeded(upd[r1]) /\ Succeeded(upd[r2])
     /\ ReqId(upd[r1]) = ReqId(upd[r2])
     /\ OnlyPrice(upd[r1].body) /\ OnlyServiceName(upd[r2].body)
     /\ ReqId(upd[r1]) \in DOMAIN store
     /\ \A q \in Reqs \ {r1, r2} :
          ~(upd[q].pc \in {"stamped", "done"} /\ ReqId(upd[q]) = ReqId(upd[r1])))
    => /\ store[ReqId(upd[r1])].price = upd[r1].body.price
       /\ store[ReqId(upd[r1])].service_name = upd[r2].body.service_name

\* C3: the stored updated_at of a subscription never decreases, and every
\* successful Update leaves it strictly greater than it was just before the
\* write.
C3_UpdatedAtMonotonic ==
  [][/\ \A i \in DOMAIN store \cap DOMAIN store' :
          store'[i].updated_at >= store[i].updated_at
     /\ \A r \in Reqs :
          Writes(r) =>
            store'[ReqId(upd[r])].updated_at > store[ReqId(upd[r])].updated_at
    ]_vars

\* C4: an Update whose statement finds no row under the id answers NotFound
\* (404), returns no subscription and writes nothing; and NotFound is answered
\* only then.
C4_NotFoundNoWrite ==
  [][\A r \in Reqs :
       /\ (upd[r].pc = "idle" /\ upd'[r].pc = "read")
            => ReqId(upd'[r]) \in DOMAIN store
       /\ (upd[r].pc = "stamped" /\ upd'[r] # upd[r]
             /\ ReqId(upd[r]) \notin DOMAIN store)
            => /\ store' = store
               /\ upd'[r].pc = "done"
               /\ upd'[r].err \in {ErrNotFound, ErrUpdate}
       /\ (Finishes(r) /\ upd'[r].err = ErrNotFound)
            => /\ store' = store
               /\ upd'[r].out = None
               /\ upd'[r].status = StatusNotFound
               /\ ReqId(upd'[r]) \notin DOMAIN store
    ]_vars

C4_Witness ==
  \E r \in Reqs :
    /\ upd[r].pc = "done" /\ upd[r].err = ErrNotFound
    /\ upd[r].status = StatusNotFound /\ upd[r].out = None
    /\ ReqId(upd[r]) \notin DOMAIN store

\* C5: a successful Update leaves every field its patch does not supply
\* (empty string, price 0) as the stored row had it, and advances updated_at.
C5_PatchPreservesFields ==
  [][\A r \in Reqs :
       Writes(r) =>
         LET old == store[ReqId(upd[r])]
             new == store'[ReqId(upd[r])]
             b == upd[r].body
         IN  /\ b.service_name = S_empty => new.service_name = old.service_name
             /\ b.price = 0 => new.price = old.price
             /\ b.start_date = S_empty => new.start_date = old.start_date
             /\ b.end_date = S_empty => new.end_date = old.end_date
             /\ new.updated_at > old.updated_at
    ]_vars

\* the mutation logic rejects the patch
PatchRejected(b) ==
  \/ b.start_date # S_empty /\ ~parseMonthYear(b.start_date).ok
  \/ b.end_date # S_empty /\ ~parseMonthYear(b.end_date).ok

\* C6: an Update whose patch has a date that does not parse writes nothing
\* in any of its steps, never reaches the UPDATE, returns no subscription, and
\* once the row was read fails with the parse error of that date.
C6_RejectedPatchNoWrite ==
  [][\A r \in Reqs :
       (upd'[r] # upd[r] /\ PatchRejected(upd'[r].body))
         => /\ store' = store
            /\ upd'[r].pc \in {"read", "done"}
            /\ upd'[r].pc = "done"
                 => /\ upd'[r].out = None
                    /\ upd'[r].err # NoErr
                    /\ upd[r].pc = "read"
                         => upd'[r].err =
                              IF ~parseMonthYear(upd[r].body.start_date).ok
                                   /\ upd[r].body.start_date # S_empty
                              THEN ErrStartDate ELSE ErrEndDate
    ]_vars

C6_Witness ==
  \E r \in Reqs :
    /\ upd[r].pc = "done" /\ upd[r].err = ErrStartDate
    /\ upd[r].body.service_name # S_empty /\ upd[r].body.price > 0
    /\ upd[r].orig # None
    /\ ReqId(upd[r]) \in DOMAIN store
    /\ store[ReqId(upd[r])] = upd[r].orig[1]

\* C7: an Update the mutation logic rejects is answered 400; 404 answers
\* NotFound only and 500 a storage failure only.
C7_RejectedPatchIsBadRequest ==
  \A r \in Reqs :
    upd[r].pc = "done" =>
      /\ upd[r].err \in {ErrStartDate, ErrEndDate}
           => upd[r].status = StatusBadRequest
      /\ upd[r].status = StatusNotFound <=> upd[r].err = ErrNotFound
      /\ upd[r].status = StatusInternalServerError
           <=> upd[r].err \in {ErrGet, ErrUpdate}

\* C8: while one Update holds the row of an id between its read and the end
\* of its transaction, no other Update on that id has read the row.
C8_ExclusiveRowLock ==
  \A r1, r2 \in Reqs :
    (r1 # r2 /\ upd[r1].pc \in {"read", "stamped"}
       /\ upd[r2].pc \in {"read", "stamped"})
    => ReqId(upd[r1]) # ReqId(upd[r2])

----------------------------------------------------------------------------
(* Properties of the stored subscriptions                                   *)

\* C14: every stored subscription that has an end_date has
\* start_date <= end_date.
C14_StartNotAfterEnd ==
  \A i \in DOMAIN store :
    store[i].end_date # None
      => TimeLE(store[i].start_date, store[i].end_date[1])

\* C15: every stored subscription has price > 0, and so has every row an
\* Update is about to write: Create rejects a price below 1, and an Update
\* with price zero or below never lowers the price.
C15_PricePositive ==
  /\ \A i \in DOMAIN store : store[i].price > 0
  /\ \A r \in Reqs : upd[r].sub # None => upd[r].sub[1].price > 0
  /\ (resp.op = "create" /\ resp.status = StatusCreated) => resp.sub[1].price > 0

\* an Update without a price has been written, one with a negative price
\* has been turned away, and the row keeps its price
C15_Witness ==
  \E r1, r2 \in Reqs :
    /\ Succeeded(upd[r1]) /\ upd[r1].body.price = 0
    /\ upd[r2].pc = "done" /\ upd[r2].body.price < 0
    /\ upd[r2].status = StatusBadRequest
    /\ ReqId(upd[r1]) \in DOMAIN store
    /\ store[ReqId(upd[r1])].price = upd[r1].orig[1].price
    /\ store[ReqId(upd[r1])].service_name # upd[r1].orig[1].service_name

\* C16: the id of a subscription is the one Create assigned; no step, and
\* no Update whatever its patch, changes the id, the user_id or the
\* created_at of a stored row, and an Update returns the row under the id it
\* addressed.
C16_IdentityImmutable ==
  [][/\ \A i \in DOMAIN store' : store'[i].id = i
     /\ \A i \in DOMAIN store \cap DOMAIN store' :
          /\ store'[i].id = store[i].id
          /\ store'[i].user_id = store[i].user_id
          /\ store'[i].created_at = store[i].created_at
     /\ \A r \in Reqs :
          Writes(r) => /\ upd'[r].out[1].id = ReqId(upd[r])
                       /\ upd'[r].out[1].user_id = store[ReqId(upd[r])].user_id
                       /\ upd'[r].out[1].created_at = store[ReqId(upd[r])].created_at
    ]_vars

\* an Update has rewritten the name of a row and stamped it
C16_Witness ==
  \E r \in Reqs :
    /\ Succeeded(upd[r])
    /\ upd[r].body.service_name # S_empty
    /\ ReqId(upd[r]) \in DOMAIN store
    /\ store[ReqId(upd[r])].service_name = upd[r].body.service_name
    /\ store[ReqId(upd[r])].service_name # upd[r].orig[1].service_name
    /\ store[ReqId(upd[r])].updated_at > store[ReqId(upd[r])].created_at

----------------------------------------------------------------------------
(* Properties of sequences of requests                                      *)

\* a step that answers a request of kind op (an Update answers in upd)
Answers(op) == resp'.op = op /\ resp' # resp

\* no Update on id i has been written
NeverUpdated(i) == \A r \in Reqs : ~(Succeeded(upd[r]) /\ ReqId(upd[r]) = i)

\* C17: a successful Create stores the subscription it returns, with
\* created_at equal to updated_at; a GetByID answered 200 returns the stored
\* row of the id asked for, and as long as no Update on that id has been
\* written that row is the one Create built from its request: same id,
\* service_name and price, created_at equal to updated_at.
C17_CreateThenGet ==
  [][/\ (Answers("create") /\ resp'.status = StatusCreated)
          => /\ resp'.sub[1].id = nextId
             /\ nextId \in DOMAIN store'
             /\ store'[nextId] = resp'.sub[1]
             /\ resp'.sub[1].created_at = resp'.sub[1].updated_at
     /\ (Answers("get") /\ resp'.status = StatusOK)
          => /\ resp'.sub[1].id = idParse(resp'.req.id).id
             /\ resp'.sub[1].id \in DOMAIN store
             /\ resp'.sub[1] = store[resp'.sub[1].id]
             /\ NeverUpdated(resp'.sub[1].id)
                  => /\ resp'.sub[1].created_at = resp'.sub[1].updated_at
                     /\ \E body \in CreateBodies :
                          /\ BindCreate(body)
                          /\ resp'.sub[1].service_name = body.service_name
                          /\ resp'.sub[1].price = body.price
                          /\ resp'.sub[1].user_id = body.user_id
    ]_vars

\* a GetByID has returned a row that no Update has written, while an Update
\* on it is in flight
C17_Witness ==
  /\ resp.op = "get" /\ resp.status = StatusOK
  /\ resp.sub[1].id \in DOMAIN store
  /\ store[resp.sub[1].id] = resp.sub[1]
  /\ resp.sub[1].created_at = resp.sub[1].updated_at
  /\ NeverUpdated(resp.sub[1].id)
  /\ \E r \in Reqs : upd[r].pc = "stamped" /\ ReqId(upd[r]) = resp.sub[1].id

\* request r2 read the row that request r1 wrote
ReadAfter(r1, r2) ==
  /\ r1 # r2
  /\ Succeeded(upd[r1])
  /\ ReqId(upd[r1]) = ReqId(upd[r2])
  /\ upd[r2].orig = upd[r1].out

\* C18: the UPDATE of a successful Update replaces the five patched columns
\* of the row in one step (no state shows part of a write) and leaves the
\* price of its patch in the row; when the Update came after another
\* successful price Update on the same id, the row is what the first one
\* wrote with the second price and the second timestamp.
C18_SequentialLastWins ==
  [][\A r \in Reqs :
       Writes(r) =>
         LET i == ReqId(upd[r])
             w == upd[r].sub[1]
         IN  /\ store' = [store EXCEPT ![i] =
                           [@ EXCEPT !.service_name = w.service_name,
                                     !.price = w.price,
                                     !.start_date = w.start_date,
                                     !.end_date = w.end_date,
                                     !.updated_at = w.updated_at]]
             /\ upd[r].body.price > 0 => store'[i].price = upd[r].body.price
             /\ \A q \in Reqs :
                  (ReadAfter(q, r) /\ OnlyPrice(upd[q].body) /\ OnlyPrice(upd[r].body))
                    => store'[i] = [upd[q].out[1] EXCEPT
                                      !.price = upd[r].body.price,
                                      !.updated_at = w.updated_at]
    ]_vars

\* price 2 then price 3 on one row, one after the other
C18_Witness ==
  \E r1, r2 \in Reqs :
    /\ ReadAfter(r1, r2) /\ Succeeded(upd[r2])
    /\ OnlyPrice(upd[r1].body) /\ OnlyPrice(upd[r2].body)
    /\ upd[r1].body.price # upd[r2].body.price
    /\ upd[r1].orig[1].price # upd[r1].body.price
    /\ ReqId(upd[r2]) \in DOMAIN store
    /\ store[ReqId(upd[r2])].price = upd[r2].body.price

\* the ids that were handed out and have no row
Gone == {i \in Ids : i < nextId /\ i \notin DOMAIN store}

\* C19: a Delete answered 204 removes the row of its id and only that row,
\* and only such a Delete removes a row; an id without a row never gets one
\* again; GetByID on it answers 404 (or 500 on a storage failure); a list
\* answered 200 holds stored rows only and a cost answered 200 sums stored
\* rows only.
C19_HardDelete ==
  [][/\ (Answers("delete") /\ resp'.status = StatusNoContent)
          => /\ idParse(resp'.req.id).id \in DOMAIN store
             /\ DOMAIN store' = DOMAIN store \ {idParse(resp'.req.id).id}
             /\ \A i \in DOMAIN store' : store'[i] = store[i]
     /\ \A i \in DOMAIN store \ DOMAIN store' :
          /\ resp'.op = "delete" /\ resp'.status = StatusNoContent
          /\ idParse(resp'.req.id).id = i
     /\ \A i \in Gone : i \notin DOMAIN store'
     /\ (Answers("get") /\ idParse(resp'.req.id).id \in Gone)
          => /\ resp'.sub = None
             /\ \/ resp'.status = StatusNotFound
                \/ resp'.status = StatusInternalServerError /\ resp'.error = ErrGet
     /\ (Answers("list") /\ resp'.status = StatusOK)
          => \A k \in 1..Len(resp'.list) :
               /\ resp'.list[k].id \in DOMAIN store
               /\ resp'.list[k] = store[resp'.list[k].id]
     /\ (Answers("cost") /\ resp'.status = StatusOK /\ DOMAIN store = {})
          => resp'.total = 0
    ]_vars

\* a row was read by an Update, then deleted; the Update's write found no
\* row, and a GetByID on the id was answered 404
C19_Witness ==
  \E r \in Reqs :
    /\ upd[r].orig # None
    /\ ReqId(upd[r]) \in Gone
    /\ upd[r].pc = "done" /\ upd[r].err = ErrNotFound
    /\ upd[r].sub # None
    /\ resp.op = "get" /\ resp.status = StatusNotFound
    /\ idParse(resp.req.id).id = ReqId(upd[r])

\* C20: a Delete of an id that has no row answers NotFound (404), or 500 on
\* a storage failure, never success, and leaves the store unchanged; and a
\* Delete answers NotFound only for an id without a row.
C20_DeleteMissingIsNotFound ==
  [][Answers("delete") =>
       /\ (idParse(resp'.req.id).ok /\ idParse(resp'.req.id).id \notin DOMAIN store)
            => /\ store' = store
               /\ \/ /\ resp'.status = StatusNotFound
                     /\ resp'.error = ErrNotFound
                  \/ /\ resp'.status = StatusInternalServerError
                     /\ resp'.error = ErrDelete
       /\ resp'.status = StatusNotFound
            => /\ idParse(resp'.req.id).id \notin DOMAIN store
               /\ store' = store
    ]_vars

\* a second Delete of a deleted id was answered 404
C20_Witness ==
  /\ resp.op = "delete" /\ resp.status = StatusNotFound
  /\ idParse(resp.req.id).id \in Gone
  /\ \E r \in Reqs :
       upd[r].orig # None /\ ReqId(upd[r]) = idParse(resp.req.id).id

----------------------------------------------------------------------------
(* Properties of the error answers                                          *)

\* the errors a failed SQL statement gives, with the driver's text in them
StorageErrors == {ErrCreate, ErrGet, ErrGetAll, ErrUpdate, ErrDelete, ErrTotalCost}

\* C21: a get, update or delete of an id without a row is answered 404 with
\* the NotFound error (500 only when the statement itself failed), never
\* with a success status; 404 and NotFound are answered for a missing id
\* only; every storage failure is answered 500.
C21_NotFoundIs404 ==
  [][/\ \A op \in {"get", "delete"} :
          (Answers(op) /\ idParse(resp'.req.id).ok) =>
            /\ idParse(resp'.req.id).id \notin DOMAIN store
                 => \/ resp'.status = StatusNotFound /\ resp'.error = ErrNotFound
                    \/ /\ resp'.status = StatusInternalServerError
                       /\ resp'.error \in StorageErrors
            /\ (resp'.status = StatusNotFound \/ resp'.error = ErrNotFound)
                 => /\ idParse(resp'.req.id).id \notin DOMAIN store
                    /\ resp'.status = StatusNotFound
                    /\ resp'.error = ErrNotFound
     /\ \A r \in Reqs :
          Finishes(r) =>
            /\ (idParse(upd'[r].idParam).ok /\ BindUpdate(upd'[r].body)
                  /\ ReqId(upd'[r]) \notin DOMAIN store)
                 => \/ /\ upd'[r].status = StatusNotFound
                       /\ upd'[r].err = ErrNotFound
                    \/ /\ upd'[r].status = StatusInternalServerError
                       /\ upd'[r].err # ErrNotFound
            /\ (upd'[r].status = StatusNotFound \/ upd'[r].err = ErrNotFound)
                 => /\ ReqId(upd'[r]) \notin DOMAIN store
                    /\ upd'[r].status = StatusNotFound
                    /\ upd'[r].err = ErrNotFound
            /\ upd'[r].err \in StorageErrors
                 => upd'[r].status = StatusInternalServerError
     /\ resp'.error \in StorageErrors => resp'.status = StatusInternalServerError
    ]_vars

\* an Update has been answered 404 for a missing row and a GetByID 500 for a
\* failed statement
C21_Witness ==
  /\ \E r \in Reqs :
       /\ upd[r].pc = "done" /\ upd[r].err = ErrNotFound
       /\ upd[r].status = StatusNotFound
       /\ upd[r].orig # None
  /\ resp.op = "get" /\ resp.status = StatusInternalServerError
  /\ resp.error = ErrGet

\* C22: a request that fails on a storage error is answered without the
\* text of that error: no 500 answer carries the error of the failed
\* statement.
C22_NoStorageTextInAnswer ==
  /\ resp.status = StatusInternalServerError => resp.error \notin StorageErrors
  /\ \A r \in Reqs :
       (upd[r].pc = "done" /\ upd[r].status = StatusInternalServerError)
         => upd[r].err \notin StorageErrors

----------------------------------------------------------------------------
(* Requests on a table of PairRows subscriptions that earlier requests     *)
(* created: Updates and Deletes addressed to any of them.                   *)

PairRows == 2

\* the POST body that created row i
PairBody(i) ==
  IF i % 2 = 1 THEN CreateSubscriptionReq(N_a, 1, "u1", S_12_2024, S_empty)
  ELSE CreateSubscriptionReq(N_Ab, 2, "u2", S_01_2025, S_02_2025)

InitPair ==
  /\ store = [i \in 1..PairRows |->
                NewSubscription(PairBody(i), i, i - PairRows).sub[1]]
  /\ nextId = PairRows + 1
  /\ clock = 1
  /\ upd = [r \in Reqs |-> IdleReq]
  /\ resp = Response("none", 0, NoErr, None, 0)

NextPair ==
  \/ \E r \in Reqs : UpdateBeginOn(r, 1..PairRows)
  \/ \E r \in Reqs : UpdateMutate(r)
  \/ \E r \in Reqs : UpdateWrite(r)
  \/ DeleteSubscriptionOn(1..PairRows)

SpecPair == InitPair /\ [][NextPair]_vars

\* request r is between its read and its answer
InFlight(r) == upd[r].pc \in {"read", "stamped"}

\* C23: a step of an Update changes no row but the one its id names, and
\* while an Update on one id is in flight, an Update on another id that has
\* a row can take its next step and succeed, a Delete of another id can
\* remove its row, and a Create can insert.
C23_OtherIdsUntouched ==
  [][/\ \A r \in Reqs :
          upd'[r] # upd[r] =>
            \A j \in DOMAIN store :
              j # ReqId(upd'[r]) => j \in DOMAIN store' /\ store'[j] = store[j]
     /\ \A r1 \in Reqs :
          InFlight(r1) =>
            /\ \A r2 \in Reqs \ {r1} :
                 (ReqId(upd[r2]) # ReqId(upd[r1])
                    /\ ReqId(upd[r2]) \in DOMAIN store)
                   => /\ upd[r2].pc = "stamped"
                           => ENABLED (UpdateWrite(r2) /\ Succeeded(upd'[r2]))
                      /\ (upd[r2].pc = "read" /\ clock <= MaxClock
                             /\ ~PatchRejected(upd[r2].body))
                           => ENABLED (UpdateMutate(r2) /\ upd'[r2].pc = "stamped")
            /\ \A j \in DOMAIN store \ {ReqId(upd[r1])} :
                 /\ ENABLED (DeleteSubscriptionOn({j}) /\ j \notin DOMAIN store')
                 /\ \A r2 \in Reqs :
                      (upd[r2].pc = "idle" /\ \A q \in Reqs : q < r2 => upd[q].pc # "idle")
                        => ENABLED (UpdateBeginOn(r2, {j}) /\ upd'[r2].pc = "read")
            /\ (nextId <= PairRows + 1 /\ clock <= MaxClock)
                 => ENABLED (CreateSubscriptionUpTo(PairRows + 1)
                               /\ nextId \in DOMAIN store')
    ]_vars

\* two Updates on two ids have both been written, each row carrying its own
\* patch, the second one begun while the first was in flight
C23_Witness ==
  \E r1, r2 \in Reqs :
    /\ r1 # r2
    /\ Succeeded(upd[r1]) /\ Succeeded(upd[r2])
    /\ ReqId(upd[r1]) # ReqId(upd[r2])
    /\ OnlyPrice(upd[r1].body) /\ OnlyServiceName(upd[r2].body)
    /\ upd[r2].out[1].updated_at < upd[r1].out[1].updated_at
    /\ r1 < r2
    /\ ReqId(upd[r1]) \in DOMAIN store /\ ReqId(upd[r2]) \in DOMAIN store
    /\ store[ReqId(upd[r1])] = upd[r1].out[1]
    /\ store[ReqId(upd[r2])] = upd[r2].out[1]

----------------------------------------------------------------------------
(* The cost query over every table of at most MaxRows subscriptions that   *)
(* POST /subscriptions can have created: the dates of a row are any of     *)
(* three months, the end may be absent or before the start.                 *)

MaxRows == 2

StoreMonths == {S_11_2024, S_12_2024, S_01_2025}

\* the POST bodies that create row i
RowBodies(i) ==
  { CreateSubscriptionReq(IF i = 1 THEN N_a ELSE IF i = 2 THEN N_Ab ELSE N_b,
                          IF i = 1 THEN 1 ELSE IF i = 2 THEN 2 ELSE 3,
                          IF i = 2 THEN "u2" ELSE "u1", a, b) :
      a \in StoreMonths, b \in StoreMonths \cup {S_empty} }

RowsOf(i) == { NewSubscription(body, i, i).sub[1] : body \in RowBodies(i) }

InitCost ==
  /\ \E S \in SUBSET (1..MaxRows) :
       store \in { f \in [S -> UNION {RowsOf(i) : i \in S}] :
                     \A i \in S : f[i] \in RowsOf(i) }
  /\ nextId = MaxRows + 1
  /\ clock = MaxRows + 1
  /\ upd = [r \in Reqs |-> IdleReq]
  /\ resp = Response("none", 0, NoErr, None, 0)

\* one query per behaviour: a query leaves the table as it is, so a second
\* query would see what the first saw
NextCost == resp.op = "none" /\ GetTotalCost

SpecCost == InitCost /\ [][NextCost]_vars

----------------------------------------------------------------------------
(* Properties of GET /subscriptions/cost                                    *)

\* a cost query was answered 200
CostAnswered == resp.op = "cost" /\ resp.status = StatusOK

\* C9: for every table and every window, degenerate ones included, each
\* subscription the query counts contributes a month count >= 0, and the
\* total cost answered is >= 0.
C9_TotalCostNonNegative ==
  CostAnswered =>
    /\ resp.total >= 0
    /\ \A i \in DOMAIN store :
         CostWhere(store[i], CostFilterOf(resp.req))
           => BilledMonths(store[i], CostFilterOf(resp.req)) >= 0

\* year * 12 + month of a month-granular date
MonthIndex(t) == t.year * 12 + t.month

Min(a, b) == IF a <= b THEN a ELSE b
Max(a, b) == IF a >= b THEN a ELSE b

\* the proration formula: min(end or windowEnd, windowEnd) minus
\* max(start, windowStart), in months, plus 1, clamped at 0
monthsOverlap(subStart, subEnd, windowStart, windowEnd) ==
  Max(0,
      Min(IF subEnd = None THEN MonthIndex(windowEnd) ELSE MonthIndex(subEnd[1]),
          MonthIndex(windowEnd))
        - Max(MonthIndex(subStart), MonthIndex(windowStart)) + 1)

RECURSIVE ProrationSum(_, _, _)
ProrationSum(st, f, S) ==
  IF S = {} THEN 0
  ELSE LET i == CHOOSE x \in S : TRUE
       IN  st[i].price * monthsOverlap(st[i].start_date, st[i].end_date,
                                       f.StartDate, f.EndDate)
             + ProrationSum(st, f, S \ {i})

\* every subscription has start_date <= end_date or no end_date
StoreWellFormed ==
  \A i \in DOMAIN store :
    store[i].end_date = None \/ TimeLE(store[i].start_date, store[i].end_date[1])

\* C10: over a table whose subscriptions have start_date <= end_date (or no
\* end_date) and a window with start month <= end month, the total cost
\* answered is the sum over the subscriptions matching the filter of price
\* times the clamped proration formula.
C10_TotalCostIsProration ==
  (/\ CostAnswered
   /\ StoreWellFormed
   /\ TimeLE(CostFilterOf(resp.req).StartDate, CostFilterOf(resp.req).EndDate))
  => resp.total =
       ProrationSum(store, CostFilterOf(resp.req),
                    {i \in DOMAIN store : CostMatches(store[i], CostFilterOf(resp.req))})

\* a window cuts one subscription short at both ends and misses another
C10_Witness ==
  /\ CostAnswered
  /\ StoreWellFormed
  /\ resp.total > 0
  /\ LET f == CostFilterOf(resp.req)
     IN  /\ ~TimeLE(f.EndDate, f.StartDate)
         /\ \E i, j \in DOMAIN store :
              /\ CostWhere(store[i], f)
              /\ ~TimeLE(store[i].start_date, f.StartDate)
              /\ store[i].end_date # None
              /\ ~TimeLE(f.EndDate, store[i].end_date[1])
              /\ CostMatches(store[j], f) /\ ~CostWindow(store[j], f)

\* what row i adds to the total answered: the total minus the sum over the
\* other rows the query counts
Contribution(i) ==
  resp.total
    - SumCost(store, CostFilterOf(resp.req),
              {j \in DOMAIN store \ {i} :
                 CostWhere(store[j], CostFilterOf(resp.req))})

\* the subscription ends before the window starts or starts after it ends
Disjoint(row, f) ==
  \/ row.end_date # None /\ MonthIndex(row.end_date[1]) < MonthIndex(f.StartDate)
  \/ MonthIndex(row.start_date) > MonthIndex(f.EndDate)

\* C11: a subscription whose end month is before the window's start month,
\* or whose start month is after the window's end month, is not counted by
\* the query and adds nothing to the total cost answered.
C11_DisjointContributesNothing ==
  CostAnswered =>
    \A i \in DOMAIN store :
      Disjoint(store[i], CostFilterOf(resp.req))
        => /\ ~CostWhere(store[i], CostFilterOf(resp.req))
           /\ Contribution(i) = 0

\* a proper window, one subscription past its end and one before its start
\* that the filter matches, and a third party that is billed
C11_Witness ==
  /\ CostAnswered
  /\ resp.total > 0
  /\ LET f == CostFilterOf(resp.req)
     IN  /\ TimeLE(f.StartDate, f.EndDate)
         /\ \E i \in DOMAIN store :
              /\ CostMatches(store[i], f)
              /\ Disjoint(store[i], f)
              /\ store[i].end_date # None
              /\ TimeLE(store[i].start_date, store[i].end_date[1])

\* the subscription covers the whole window
Contains(row, f) ==
  /\ MonthIndex(row.start_date) <= MonthIndex(f.StartDate)
  /\ row.end_date = None
       \/ MonthIndex(row.end_date[1]) >= MonthIndex(f.EndDate)

\* months of the window, both ends counted
WindowLength(f) == MonthIndex(f.EndDate) - MonthIndex(f.StartDate) + 1

\* C12 as stated, for any window: a subscription the filter matches, with
\* start month <= window start month and no end_date or end month >= window
\* end month, adds price times the window's length in months to the total.
C12_FullContainmentAnyWindow ==
  CostAnswered =>
    \A i \in DOMAIN store :
      (CostMatches(store[i], CostFilterOf(resp.req))
         /\ Contains(store[i], CostFilterOf(resp.req)))
        => Contribution(i) = store[i].price * WindowLength(CostFilterOf(resp.req))

\* C12: for a window with start month <= end month, a subscription the
\* filter matches, with start month <= window start month and no end_date or
\* end month >= window end month, is billed the window's length in months
\* and adds price times that length to the total; a one-month window adds
\* exactly price.
C12_FullContainment ==
  (CostAnswered
     /\ TimeLE(CostFilterOf(resp.req).StartDate, CostFilterOf(resp.req).EndDate))
  => \A i \in DOMAIN store :
       (CostMatches(store[i], CostFilterOf(resp.req))
          /\ Contains(store[i], CostFilterOf(resp.req)))
         => /\ BilledMonths(store[i], CostFilterOf(resp.req))
                 = WindowLength(CostFilterOf(resp.req))
            /\ Contribution(i)
                 = store[i].price * WindowLength(CostFilterOf(resp.req))
            /\ WindowLength(CostFilterOf(resp.req)) = 1
                 => Contribution(i) = store[i].price

\* a window of several months inside a subscription that starts earlier
C12_Witness ==
  /\ CostAnswered
  /\ LET f == CostFilterOf(resp.req)
     IN  /\ WindowLength(f) > 1
         /\ \E i \in DOMAIN store :
              /\ CostMatches(store[i], f)
              /\ Contains(store[i], f)
              /\ MonthIndex(store[i].start_date) < MonthIndex(f.StartDate)
              /\ Contribution(i) = store[i].price * WindowLength(f)

\* text contains sub, letters compared without case
ContainsFold(text, sub) ==
  \E k \in 0..(Len(text) - Len(sub)) :
    \A j \in 1..Len(sub) : Lower(text[k + j]) = Lower(sub[j])

\* the subscriptions a cost query q is asked about
Asked(row, q) ==
  /\ q.user_id # "" => row.user_id = q.user_id
  /\ q.service_name # S_empty => ContainsFold(row.service_name, q.service_name)

\* C13: the total cost answered is the sum over the subscriptions that
\* overlap the window, belong to the user asked for (when one is given) and
\* whose service_name contains the name asked for without regard to case
\* (when one is given); any other subscription adds nothing.
C13_OnlyMatchingCounted ==
  CostAnswered =>
    /\ resp.total =
         SumCost(store, CostFilterOf(resp.req),
                 {i \in DOMAIN store :
                    CostWindow(store[i], CostFilterOf(resp.req))
                      /\ Asked(store[i], resp.req)})
    /\ \A i \in DOMAIN store : ~Asked(store[i], resp.req) => Contribution(i) = 0

\* the month after t
NextMonth(t) ==
  IF t.month = 12 THEN [year |-> t.year + 1, month |-> 1]
  ELSE [year |-> t.year, month |-> t.month + 1]

\* the total GetTotalCost computes over the window [a, c] with the user and
\* the name of filter f
TotalOver(f, a, c) ==
  RepoGetTotalCost(store, [f EXCEPT !.StartDate = a, !.EndDate = c], TRUE).total

\* the months b of the window of f with start <= b < end
SplitMonths(f) ==
  {t \in {parseMonthYear(m).t : m \in WindowMonths} :
     TimeLE(f.StartDate, t) /\ TimeLE(NextMonth(t), f.EndDate)}

\* C29: over a table whose subscriptions have start_date <= end_date (or no
\* end_date), the total cost answered for the window [a, c] is, for every
\* month b with a <= b < c, the total over [a, b] plus the total over
\* [b + 1, c], with the same user and service name.
C29_AdjacentWindowsAdd ==
  (CostAnswered /\ StoreWellFormed) =>
    LET f == CostFilterOf(resp.req)
    IN  \A b \in SplitMonths(f) :
          resp.total = TotalOver(f, f.StartDate, b)
                         + TotalOver(f, NextMonth(b), f.EndDate)

\* a window from 11-2024 to 02-2025 is split after December, and both halves
\* count a subscription that runs over the turn of the year
C29_Witness ==
  /\ CostAnswered
  /\ StoreWellFormed
  /\ resp.req.start_date = S_11_2024 /\ resp.req.end_date = S_02_2025
  /\ parseMonthYear(S_12_2024).t \in SplitMonths(CostFilterOf(resp.req))
  /\ TotalOver(CostFilterOf(resp.req), parseMonthYear(S_11_2024).t,
               parseMonthYear(S_12_2024).t) > 0
  /\ TotalOver(CostFilterOf(resp.req), parseMonthYear(S_01_2025).t,
               parseMonthYear(S_02_2025).t) > 0
  /\ \E i \in DOMAIN store :
       /\ store[i].start_date = parseMonthYear(S_12_2024).t
       /\ store[i].end_date = Some(parseMonthYear(S_01_2025).t)
       /\ CostMatches(store[i], CostFilterOf(resp.req))

----------------------------------------------------------------------------
(* GET /subscriptions over every table of at most MaxRows subscriptions    *)

\* a user or none; no name, a letter or the text "_"; limit and offset
\* absent, positive, zero, negative or no number; and a user_id that is no
\* UUID
PageQueries ==
  { ListQuery(u, n, l, o) :
      u \in {"", "u1"}, n \in {S_empty, N_a, N_wild},
      l \in {S_empty, <<"1">>, <<"2">>, <<"0">>, <<"-", "1">>, <<"x">>},
      o \in {S_empty, <<"1">>, <<"-", "1">>, <<"x">>} }
  \cup { ListQuery("not-a-uuid", S_empty, S_empty, S_empty) }

\* one query per behaviour, as for the cost query
NextList == resp.op = "none" /\ GetAllSubscriptionsFor(PageQueries)

SpecList == InitCost /\ [][NextList]_vars

\* the orders that put the rows of M latest created_at first
LatestFirst(M) ==
  { sq \in [1..Cardinality(M) -> M] :
      /\ \A k, l \in 1..Cardinality(M) : k # l => sq[k] # sq[l]
      /\ \A k, l \in 1..Cardinality(M) :
           k < l => store[sq[k]].created_at >= store[sq[l]].created_at }

\* C24: a list answered 200 is, of the stored subscriptions of the user
\* asked for whose service_name contains the name asked for, ordered latest
\* created_at first, the ones after the first `offset` and at most `limit`
\* of them; the limit passed is > 0 (the query's when it is a positive
\* number, else 20) and the offset passed is >= 0 (the query's when it is a
\* number >= 0, else 0).
C24_ListIsPageOfMatching ==
  (resp.op = "list" /\ resp.status = StatusOK) =>
    LET q == resp.req
        f == ListFilterOf(q)
        M == {i \in DOMAIN store : Asked(store[i], q)}
        l == parseQueryInt(q.limit)
        o == parseQueryInt(q.offset)
    IN  /\ f.Limit > 0 /\ f.Offset >= 0
        /\ f.Limit = IF l.ok /\ l.val > 0 THEN l.val ELSE DefaultLimit
        /\ f.Offset = IF o.ok /\ o.val >= 0 THEN o.val ELSE 0
        /\ \E sq \in LatestFirst(M) :
             resp.list =
               [k \in 1..Max(0, Min(Cardinality(M), f.Offset + f.Limit) - f.Offset)
                  |-> store[sq[f.Offset + k]]]

----------------------------------------------------------------------------
(* What a patch cannot do                                                   *)

\* C26: the UPDATE of a successful Update never leaves a row that had an
\* end_date without one, never changes the price when the patch has price 0,
\* never changes a date the patch leaves empty, and never stores a price
\* below 1: a zero or empty field of a patch is no change of that field.
C26_PatchNeverClears ==
  [][\A r \in Reqs :
       Writes(r) =>
         LET old == store[ReqId(upd[r])]
             new == store'[ReqId(upd[r])]
             b == upd[r].body
         IN  /\ old.end_date # None => new.end_date # None
             /\ b.price = 0 => new.price = old.price
             /\ b.start_date = S_empty => new.start_date = old.start_date
             /\ b.end_date = S_empty => new.end_date = old.end_date
             /\ new.price >= 1
    ]_vars

\* request r read a row of its id
ReadRow(u) == u.orig # None

\* C27: when the row an Update has read is deleted before its UPDATE, the
\* UPDATE changes nothing in the store, the Update ends with NotFound (404)
\* and no subscription, or with the storage error when the statement itself
\* fails, and the id stays without a row.
C27_UpdateNeverResurrects ==
  [][\A r \in Reqs :
       (upd[r].pc = "stamped" /\ upd'[r].pc = "done" /\ ReadRow(upd[r])
          /\ ReqId(upd[r]) \notin DOMAIN store)
       => /\ store' = store
          /\ ReqId(upd[r]) \notin DOMAIN store'
          /\ upd'[r].out = None
          /\ \/ upd'[r].err = ErrNotFound /\ upd'[r].status = StatusNotFound
             \/ upd'[r].err = ErrUpdate
                  /\ upd'[r].status = StatusInternalServerError
    ]_vars

\* an Update that had read a row ended with NotFound after a Delete of its
\* id was answered 204
C27_Witness ==
  \E r \in Reqs :
    /\ upd[r].pc = "done"
    /\ ReadRow(upd[r])
    /\ upd[r].err = ErrNotFound
    /\ ReqId(upd[r]) \notin DOMAIN store
    /\ resp.op = "delete" /\ resp.status = StatusNoContent

\* the four data fields of a subscription
Data(sub) ==
  <<sub.service_name, sub.price, sub.start_date, sub.end_date>>

EmptyPatch(b) ==
  b.service_name = S_empty /\ b.price = 0
    /\ b.start_date = S_empty /\ b.end_date = S_empty

\* C28: the UPDATE of a successful Update that carries the patch of an
\* earlier successful Update on the id, and read the row that one wrote,
\* leaves service_name, price, start_date and end_date as that one left
\* them; the UPDATE of a successful Update with an empty patch changes
\* nothing in the stored row but updated_at.
C28_PatchIdempotent ==
  [][\A r \in Reqs :
       Writes(r) =>
         LET old == store[ReqId(upd[r])]
             new == store'[ReqId(upd[r])]
         IN  /\ \A r1 \in Reqs :
                  (ReadAfter(r1, r) /\ upd[r1].body = upd[r].body)
                  => Data(new) = Data(upd[r1].out[1])
             /\ EmptyPatch(upd[r].body)
                  => new = [old EXCEPT !.updated_at = new.updated_at]
    ]_vars

----------------------------------------------------------------------------
(* POST /subscriptions and subscriptionService.Create over every request   *)

\* every combination of a price, a user_id, a start_date and an end_date
\* that is well-formed or malformed
CreateRequests ==
  { CreateSubscriptionReq(N_a, p, u, s, e) :
      p \in {1, 0}, u \in {"u1", "u2", "not-a-uuid"},
      s \in {S_12_2024, S_2025_01, S_13_2025, S_empty},
      e \in {S_empty, S_02_2025, S_13_2025, S_invalid} }

\* subscriptionService.Create called with req, as the service's tests call
\* it (no HTTP status: 0)
ServiceCreate(req) ==
  \E dbOK \in BOOLEAN :
    LET n == NewSubscription(req, nextId, clock)
    IN  IF n.err # NoErr
        THEN /\ resp' = Response("Create", 0, n.err, None, 0)
             /\ UNCHANGED <<store, nextId, clock, upd>>
        ELSE /\ nextId <= MaxIds
             /\ clock <= MaxClock
             /\ LET c == RepoCreate(store, n.sub[1], dbOK)
                IN  /\ store' = c.store
                    /\ resp' = Response("Create", 0, c.err,
                                        IF c.err # NoErr THEN None ELSE n.sub, 0)
             /\ nextId' = nextId + 1
             /\ clock' = clock + 1
             /\ UNCHANGED upd

NextCreate ==
  \/ \E req \in CreateRequests : ServiceCreate(req)
  \/ \E body \in CreateRequests : CreateSubscriptionWith(body, MaxIds)

SpecCreate == Init /\ [][NextCreate]_vars

\* the fields of a Create request the claim is about that are malformed
Offending(req) ==
  {f \in {"user_id", "start_date", "end_date"} :
     \/ f = "user_id" /\ req.user_id \notin UUIDs
     \/ f = "start_date" /\ ~ParseOK(req.start_date)
     \/ f = "end_date" /\ req.end_date # S_empty /\ ~ParseOK(req.end_date)}

\* the Create requests the claim is about
Malformed == {req \in CreateRequests : Offending(req) # {}}

\* the fields of a POST body its binding tags reject
Rejected(req) ==
  {f \in {"service_name", "price", "user_id", "start_date"} :
     \/ f = "service_name" /\ req.service_name = S_empty
     \/ f = "price" /\ req.price < 1
     \/ f = "user_id" /\ req.user_id \notin UUIDs
     \/ f = "start_date" /\ req.start_date = S_empty}

\* the messages the validator has for each field, in the order of the struct
FieldMessages ==
  << [field |-> "service_name",
      msgs |-> {FieldError("ServiceName", "required")}],
     [field |-> "price",
      msgs |-> {FieldError("Price", "required"), FieldError("Price", "min")}],
     [field |-> "user_id",
      msgs |-> {FieldError("UserID", "required"), FieldError("UserID", "uuid")}],
     [field |-> "start_date",
      msgs |-> {FieldError("StartDate", "required")}] >>

\* nothing, or one of the messages the validator has for the k-th field; one
\* of them when that field is f
MessageOptions(k, f) ==
  {<<m>> : m \in FieldMessages[k].msgs}
  \cup (IF FieldMessages[k].field = f THEN {} ELSE {<< >>})

\* the error texts that name each field: the service's own, and every
\* binding answer that carries a message for the field
ErrorsNamingField ==
  [f \in {"service_name", "price", "user_id", "start_date", "end_date"} |->
     (CASE f = "user_id" -> {ErrUserID}
        [] f = "start_date" -> {ErrStartDate}
        [] f = "end_date" -> {ErrEndDate}
        [] OTHER -> {})
     \cup
     (IF \E k \in 1..4 : FieldMessages[k].field = f
      THEN { "invalid request body: " \o JoinLines(a \o b \o c \o d) :
               a \in MessageOptions(1, f), b \in MessageOptions(2, f),
               c \in MessageOptions(3, f), d \in MessageOptions(4, f) }
      ELSE {})]

ErrorsNaming(f) == ErrorsNamingField[f]

\* C25: a Create request whose user_id is no UUID, or whose start_date or
\* non-empty end_date is not MM-YYYY, fails with an error that names a field
\* the request is malformed in, returns no subscription and leaves the store
\* as it was; called on the service, the field named is one of those three;
\* POSTed, it is one of those three or one the binding rejects.
C25_MalformedCreateFails ==
  [][/\ resp'.op = "Create" =>
          \A req \in Malformed :
            ServiceCreate(req) =>
              /\ resp'.sub = None
              /\ store' = store
              /\ \E f \in Offending(req) : resp'.error \in ErrorsNaming(f)
     /\ resp'.op = "create" =>
          \A req \in Malformed :
            CreateSubscriptionWith(req, MaxIds) =>
              /\ resp'.sub = None
              /\ resp'.status # StatusCreated
              /\ store' = store
              /\ \E f \in Offending(req) \cup Rejected(req) :
                   resp'.error \in ErrorsNaming(f)]_vars

\* the service refused a malformed end_date while a subscription is stored
C25_Witness ==
  /\ resp.op = "Create"
  /\ resp.error = ErrEndDate
  /\ resp.sub = None
  /\ store # EmptyStore

====
